---- MODULE Spec2Model ----
(***************************************************************************)
(* Model of the pymedB client: the sliding-window rate limiter and the    *)
(* fetcher of PubMedClientBase, the paginated identifier search           *)
(* (get_article_ids), the record and summary generators of PubMed, and    *)
(* the open-access download-link resolver of PubMed / PMC.                *)
(*                                                                         *)
(* Time is a discrete clock `now`; one second is `Second` ticks.  The     *)
(* upstream service is the environment: it answers every request with a   *)
(* failure status or with a body drawn from a bounded set.                *)
(***************************************************************************)
EXTENDS Integers, Sequences, FiniteSets, TLC

\* ---------------------------------------------------------------- bounds
\* ticks of the clock in one second (resolution of datetime.now())
Second == 5
\* last instant of the clock that a behaviour explores
MaxClock == 12
\* requests issued in one behaviour
MaxRequests == 5
\* pages without progress in a row that a search may be expected to tolerate
ZeroProgressLimit == 2
\* operations invoked in one behaviour
MaxCalls == 2
\* largest small max_results a caller passes
MaxResults == 3
\* largest number of matching records the source holds
MaxTotal == 3
\* largest page the source is willing to return when it caps pages itself
MaxServerCap == 2
\* page size the source uses when the request carries a negative retmax
ServerDefault == 2
\* record elements in one fetched document
MaxDocLen == 2

\* ------------------------------------------------------ program constants
rateLimit == 3
RetmaxCap == 50000
BatchSize == 250

None == "None"

Min(a, b) == IF a < b THEN a ELSE b
Max(a, b) == IF a > b THEN a ELSE b

RECURSIVE SumSeq(_)
SumSeq(s) == IF s = <<>> THEN 0 ELSE Head(s) + SumSeq(Tail(s))

RECURSIVE Flatten(_)
Flatten(ss) == IF ss = <<>> THEN <<>> ELSE Head(ss) \o Flatten(Tail(ss))

\* ------------------------------------------------------------- the client
VARIABLES
    cls,            \* class of the client object: "PubMed" or "PMC"
    parameters,     \* self.parameters, the stored default query parameters
    requestsMade,   \* self._requestsMade, timestamps of the requests made
    now,            \* datetime.datetime.now()
    pc,             \* where the single thread of control is
    site,           \* the call site of the _get in progress
    call,           \* the operation invoked last, with its arguments
    result,         \* what the last invocation or pull gave its caller
    ncalls,         \* operations invoked so far
    nSent,          \* HTTP requests issued so far
    lastReq,        \* the HTTP request issued last: url and query parameters
    reqparams,      \* the per-call copy of the parameters
    src,            \* the behaviour of the source during this call
    article_ids,    \* get_article_ids: the accumulator
    max_results,    \* get_article_ids: max_results (rebound on line 138)
    total_result_count, \* get_article_ids: count of the first response
    retrieved_count,    \* get_article_ids: sum of the reported retmax
    pages,          \* history: the search responses received in this call
    sent,           \* history: the requests issued by this call, in order
    chain,          \* lazy sequence: the generators not started yet
    todo,           \* lazy sequence: elements the running generator has left
    yielded,        \* history: entities delivered to the consumer by this call
    doc,            \* history: the response documents parsed during this call
    pending,        \* batch resolver: identifiers not looked up yet
    urls            \* batch resolver: the list built so far

clientVars == <<cls, parameters>>
searchVars == <<article_ids, max_results, total_result_count, retrieved_count>>
histVars == <<pages, sent>>
lazyVars == <<chain, todo, yielded, doc>>
resolveVars == <<pending, urls>>
vars == <<cls, parameters, requestsMade, now, pc, site, call, result, ncalls,
          nSent, lastReq, reqparams, src, article_ids, max_results,
          total_result_count, retrieved_count, pages, sent,
          chain, todo, yielded, doc, pending, urls>>

\* ------------------------------------------------------------ the source
\* What the service does with the searches of one call: an "honest" source
\* holds `total` records, numbered 1..total, returns the page that starts
\* at the requested offset, never more than requested nor than its own page
\* cap (cap = 0: no cap), and reports as retmax the number of ids it
\* returned; any other source reports the same total on every page, but a
\* retmax and an id list that need not fit the request or each other.
HonestSources == [kind : {"honest"}, total : 0..MaxTotal, cap : 0..MaxServerCap]
Sources == HonestSources \cup {[kind |-> "any", total |-> MaxTotal, cap |-> 0]}

HonestPage(p, s) ==
    LET start == IF "retstart" \in DOMAIN p THEN p["retstart"] ELSE 0
        asked == IF p["retmax"] < 0 THEN ServerDefault ELSE p["retmax"]
        capped == IF s.cap = 0 THEN asked ELSE Min(asked, s.cap)
        n == Max(0, Min(capped, s.total - start))
    IN  [count |-> s.total, retmax |-> n, idlist |-> [k \in 1..n |-> start + k]]

\* the pages of a source that is not honest: no progress, more ids than
\* reported (with a duplicate), fewer ids than reported
AnyPages == {[retmax |-> 0, idlist |-> <<>>],
             [retmax |-> 1, idlist |-> <<1, 1>>],
             [retmax |-> 2, idlist |-> <<2>>]}

SearchBodies(p, s) ==
    IF s.kind = "honest"
    THEN {HonestPage(p, s)}
    ELSE {[count |-> s.total, retmax |-> pg.retmax, idlist |-> pg.idlist] :
            pg \in AnyPages}

\* ------------------------------------------------------------ construction
NoParams == [k \in {} |-> None]
\* no request issued yet, no result yet, no search in progress
NoRequest == [url |-> None, params |-> NoParams]
NoResult == [kind |-> "none"]
NoSource == [kind |-> "honest", total |-> 0, cap |-> 0]

\* PubMedClientBase.__init__ as called by PubMed.__init__ / PMC.__init__
Construct(c, api_key) ==
    LET db == IF c = "PubMed" THEN "pubmed" ELSE "pmc"
        base == [tool |-> "my_tool", email |-> "my_email", db |-> db]
    IN  IF api_key = None THEN base ELSE ("api_key" :> api_key) @@ base

Init ==
    /\ cls \in {"PubMed", "PMC"}
    /\ \E k \in {None, "key"} : parameters = Construct(cls, k)
    /\ requestsMade = <<>>
    /\ now = 0
    /\ pc = "idle"
    /\ site = None
    /\ call = [op |-> None]
    /\ result = NoResult
    /\ ncalls = 0
    /\ nSent = 0
    /\ lastReq = NoRequest
    /\ reqparams = NoParams
    /\ src = NoSource
    /\ article_ids = <<>>
    /\ max_results = 0
    /\ total_result_count = 0
    /\ retrieved_count = 0
    /\ pages = <<>>
    /\ sent = <<>>
    /\ chain = <<>>
    /\ todo = <<>>
    /\ yielded = <<>>
    /\ doc = <<>>
    /\ pending = <<>>
    /\ urls = <<>>

\* ------------------------------------------------------------ rate limiter
\* variant: a timestamp exactly one second old is kept
Pruned_KeepBoundary == SelectSeq(requestsMade, LAMBDA t : t >= now - Second)

\* _exceeded_rate_limit, line 95: the timestamps it keeps
Pruned == SelectSeq(requestsMade, LAMBDA t : t > now - Second)

\* variant: the admission check never reports blocked
Exceeded_Never == FALSE

\* _exceeded_rate_limit, line 98: its return value
Exceeded == Len(Pruned) > rateLimit

\* ---------------------------------------------------------------- fetcher
Url(st) ==
    CASE st \in {"ids_first", "ids_loop"} -> "/entrez/eutils/esearch.fcgi"
      [] st = "fetch" -> "/entrez/eutils/efetch.fcgi"
      [] st = "summary" -> "/entrez/eutils/esummary.fcgi"
      [] st = "oa" -> "/pmc/utils/oa/oa.fcgi"

Output(st) == IF st \in {"ids_first", "ids_loop"} THEN "json" ELSE "xml"

\* _get, lines 66-67: one turn of the busy-wait while the limiter blocks;
\* the clock moves on while the thread spins
BusyWait ==
    /\ pc = "get"
    /\ Exceeded
    /\ now < MaxClock
    /\ requestsMade' = Pruned
    /\ now' = now + 1
    /\ UNCHANGED <<clientVars, pc, site, call, result, ncalls, nSent, lastReq,
                   reqparams, src, searchVars, histVars, lazyVars, resolveVars>>

\* _get, lines 66-73: the limiter admits, retmode is set on the caller's
\* dictionary and the request goes out
Dispatch ==
    /\ pc = "get"
    /\ ~Exceeded
    /\ nSent < MaxRequests
    /\ requestsMade' = Pruned
    /\ reqparams' = ("retmode" :> Output(site)) @@ reqparams
    /\ lastReq' = [url |-> Url(site), params |-> reqparams']
    /\ nSent' = nSent + 1
    /\ pc' = "wait"
    /\ sent' = Append(sent, lastReq')
    /\ UNCHANGED <<clientVars, now, site, call, result, ncalls, src,
                   searchVars, pages, lazyVars, resolveVars>>

\* ------------------------------------------------------------ XML records
\* A record element of a fetched document: its wrapper tag, its position in
\* the document (the identity of the node) and the sub-elements it has.
Tags == {"PubmedArticle", "PubmedBookArticle"}
SubNames == {"Id", "Title"}
\* a record element has all its sub-elements, or lacks its identifier
Elements(tags) == [tag : tags, sub : {SubNames, {"Title"}}]

\* the documents of at most MaxDocLen record elements with the given tags
Docs(tags) ==
    UNION {[1..n -> Elements(tags)] : n \in 0..MaxDocLen}

\* xml.fromstring: the parsed tree, every record element with its position
Parse(d) == [i \in 1..Len(d) |-> [tag |-> d[i].tag, pos |-> i, sub |-> d[i].sub]]

\* root.iter(tag) / root.findall(tag): the elements with the tag, in
\* document order
Iter(root, tag) == SelectSeq(root, LAMBDA el : el.tag = tag)

\* the text of a sub-element of a record element: a string, as the absent
\* value is, so that two entities can always be compared
Text(el, name) == name \o ToString(el.pos)

\* helpers.get_content: the text at the path, the default when no node matches
get_content(el, name, default) ==
    IF name \in el.sub THEN Text(el, name) ELSE default

\* summary.get_item_value
get_item_value(docsum, item_name) ==
    IF item_name \in docsum.sub THEN Text(docsum, item_name) ELSE None

\* PubMedArticle.__init__ with an xml_element: _initializeFromXML
PubMedArticle(el) ==
    [ok |-> TRUE,
     entity |-> [kind |-> "article",
                 pubmed_id |-> get_content(el, "Id", None),
                 title |-> get_content(el, "Title", None),
                 xml |-> el.pos]]

\* the methods PubMedBookArticle defines
BookMethods == {"_initialize_from_xml", "to_dict", "to_json"}

\* PubMedBookArticle._initialize_from_xml
BookFromXml(el) ==
    [kind |-> "book",
     pubmed_id |-> get_content(el, "Id", None),
     title |-> get_content(el, "Title", None),
     xml |-> el.pos]

\* PubMedBookArticle.__init__ with an xml_element: it calls
\* self._initializeFromXML, and the attribute lookup raises when the class
\* has no method of that name
PubMedBookArticle(el) ==
    IF "_initializeFromXML" \in BookMethods
    THEN [ok |-> TRUE, entity |-> BookFromXml(el)]
    ELSE [ok |-> FALSE, error |-> "AttributeError"]

\* ArticleSummary.from_xml: docsum.find('Id').text raises when there is no Id
ArticleSummary(docsum) ==
    IF "Id" \in docsum.sub
    THEN [ok |-> TRUE,
          entity |-> [kind |-> "summary",
                      doc_id |-> Text(docsum, "Id"),
                      title |-> get_item_value(docsum, "Title"),
                      xml |-> docsum.pos]]
    ELSE [ok |-> FALSE, error |-> "AttributeError"]

MakeEntity(el) ==
    CASE el.tag = "PubmedArticle" -> PubMedArticle(el)
      [] el.tag = "PubmedBookArticle" -> PubMedBookArticle(el)
      [] el.tag = "DocSum" -> ArticleSummary(el)

\* get_articles, lines 84-87: the two loops over the parsed document
ArticleOrder(root) == Iter(root, "PubmedArticle") \o Iter(root, "PubmedBookArticle")

\* get_articles_summaries, lines 110-111
SummaryOrder(root) == Iter(root, "DocSum")

\* helpers.batches: consecutive slices of at most n items
RECURSIVE batches(_, _)
batches(ids, n) ==
    IF ids = <<>> THEN <<>>
    ELSE IF Len(ids) <= n THEN <<ids>>
    ELSE <<SubSeq(ids, 1, n)>> \o batches(SubSeq(ids, n + 1, Len(ids)), n)

\* ------------------------------------------------- open-access lookup body
\* The body of an oa.fcgi answer: whether it is well-formed XML, whether the
\* root has an error child, whether there is a record node, and the formats
\* of the record's links in document order (link i has href <<"href", i>>).
OaBodies ==
    {[wellformed |-> FALSE, error |-> FALSE, record |-> FALSE, links |-> <<>>],
     [wellformed |-> TRUE, error |-> FALSE, record |-> FALSE, links |-> <<>>],
     [wellformed |-> TRUE, error |-> TRUE, record |-> FALSE, links |-> <<>>],
     [wellformed |-> TRUE, error |-> TRUE, record |-> TRUE, links |-> <<"pdf">>]}
    \cup [wellformed : {TRUE}, error : {FALSE}, record : {TRUE},
          links : {<<>>, <<"pdf">>, <<"tgz">>, <<"tgz", "pdf">>, <<"pdf", "pdf">>}]

\* record.find(".//link[@format=...]"): index of the first link of the format
FirstLink(links, fmt) ==
    IF \E i \in 1..Len(links) : links[i] = fmt
    THEN CHOOSE i \in 1..Len(links) :
            links[i] = fmt /\ \A j \in 1..(i - 1) : links[j] # fmt
    ELSE 0

\* variant: the links are examined in document order, and the first one of
\* an accepted format wins
PickLink_LinkOrder(links, accepted_formats) ==
    IF \E i \in 1..Len(links), k \in 1..Len(accepted_formats) :
            links[i] = accepted_formats[k]
    THEN <<"href", CHOOSE i \in 1..Len(links) :
                /\ \E k \in 1..Len(accepted_formats) : links[i] = accepted_formats[k]
                /\ \A j \in 1..(i - 1) :
                      \A k \in 1..Len(accepted_formats) : links[j] # accepted_formats[k]>>
    ELSE None

RECURSIVE PickLink(_, _)
\* get_article_download_url, lines 43-48: the loop over accepted_formats
PickLink(links, accepted_formats) ==
    IF accepted_formats = <<>> THEN None
    ELSE IF FirstLink(links, Head(accepted_formats)) # 0
         THEN <<"href", FirstLink(links, Head(accepted_formats))>>
         ELSE PickLink(links, Tail(accepted_formats))

\* variant: the error element is not looked for
Resolve_NoErrorCheck(body, accepted_formats) ==
    IF ~body.wellformed THEN [ok |-> TRUE, value |-> None]
    ELSE IF ~body.record /\ accepted_formats # <<>>
         THEN [ok |-> FALSE, error |-> "AttributeError"]
    ELSE [ok |-> TRUE,
          value |-> PickLink(IF body.record THEN body.links ELSE <<>>,
                             accepted_formats)]

\* get_article_download_url, lines 34-48: from the response text to the
\* value returned; record.find on a missing record raises
Resolve(body, accepted_formats) ==
    IF ~body.wellformed THEN [ok |-> TRUE, value |-> None]
    ELSE IF body.error THEN [ok |-> TRUE, value |-> None]
    ELSE IF ~body.record /\ accepted_formats # <<>>
         THEN [ok |-> FALSE, error |-> "AttributeError"]
    ELSE [ok |-> TRUE,
          value |-> PickLink(IF body.record THEN body.links ELSE <<>>,
                             accepted_formats)]

\* variant: the mode is never checked
WrongDb_Never(required) == FALSE

\* the mode checks of PubMed and PMC: parameters["db"] != required
WrongDb(required) == parameters["db"] # required

\* ------------------------------------------------------- lazy sequences
Raised(e) == [kind |-> "raised", error |-> e]
Returned(v) == [kind |-> "returned", value |-> v]

\* variant: the generator takes no copy and sets id on the dictionary the
\* request before it left behind
StartGenerator_Leftover(g) ==
    IF g.kind = "articles" /\ WrongDb("pubmed")
    THEN /\ result' = Raised("Exception")
         /\ pc' = "lazy"
         /\ site' = None
         /\ reqparams' = reqparams
    ELSE /\ result' = result
         /\ pc' = "get"
         /\ site' = IF g.kind = "articles" THEN "fetch" ELSE "summary"
         /\ reqparams' = ("id" :> g.ids) @@ reqparams

\* get_articles, lines 69-78 / get_articles_summaries, lines 100-107: the
\* body of a generator from its first pull to its _get
StartGenerator(g) ==
    IF g.kind = "articles" /\ WrongDb("pubmed")
    THEN /\ result' = Raised("Exception")
         /\ pc' = "lazy"
         /\ site' = None
         /\ reqparams' = reqparams
    ELSE /\ result' = result
         /\ pc' = "get"
         /\ site' = IF g.kind = "articles" THEN "fetch" ELSE "summary"
         /\ reqparams' = ("id" :> g.ids) @@ parameters

\* One pull of the consumer on itertools.chain.from_iterable(articles) (or
\* on a single generator): the running generator builds its next entity; a
\* finished or failed generator is left for the next one of the chain, whose
\* body starts; with nothing left the pull ends in StopIteration.
Resume(ch, td, yl) ==
    IF td # <<>>
    THEN LET made == MakeEntity(Head(td)) IN
         /\ chain' = ch
         /\ pc' = "lazy"
         /\ site' = None
         /\ reqparams' = reqparams
         /\ IF made.ok
            THEN /\ todo' = Tail(td)
                 /\ yielded' = Append(yl, made.entity)
                 /\ result' = [kind |-> "yielded", value |-> made.entity]
            ELSE /\ todo' = <<>>
                 /\ yielded' = yl
                 /\ result' = Raised(made.error)
    ELSE IF ch = <<>>
    THEN /\ chain' = ch
         /\ todo' = <<>>
         /\ yielded' = yl
         /\ result' = [kind |-> "exhausted"]
         /\ pc' = "lazy"
         /\ site' = None
         /\ reqparams' = reqparams
    ELSE /\ chain' = Tail(ch)
         /\ todo' = <<>>
         /\ yielded' = yl
         /\ StartGenerator(Head(ch))

\* ------------------------------------------------------ download links
\* variant: identifiers that are not resolved get no entry in the list
NextLookup_SkipUnresolved(pend, us) ==
    IF pend = <<>>
    THEN /\ result' = Returned(SelectSeq(us, LAMBDA u : u # None))
         /\ pc' = "idle"
         /\ site' = None
         /\ reqparams' = reqparams
         /\ pending' = <<>>
         /\ urls' = us
    ELSE IF WrongDb("pmc")
    THEN /\ result' = Raised("Exception")
         /\ pc' = "idle"
         /\ site' = None
         /\ reqparams' = reqparams
         /\ pending' = pend
         /\ urls' = us
    ELSE /\ result' = result
         /\ pc' = "get"
         /\ site' = "oa"
         /\ reqparams' = ("id" :> Head(pend)) @@ parameters
         /\ pending' = pend
         /\ urls' = us

\* query_article_download_urls, line 61: the list comprehension, one
\* get_article_download_url (lines 27-32) per identifier
NextLookup(pend, us) ==
    IF pend = <<>>
    THEN /\ result' = Returned(us)
         /\ pc' = "idle"
         /\ site' = None
         /\ reqparams' = reqparams
         /\ pending' = <<>>
         /\ urls' = us
    ELSE IF WrongDb("pmc")
    THEN /\ result' = Raised("Exception")
         /\ pc' = "idle"
         /\ site' = None
         /\ reqparams' = reqparams
         /\ pending' = pend
         /\ urls' = us
    ELSE /\ result' = result
         /\ pc' = "get"
         /\ site' = "oa"
         /\ reqparams' = ("id" :> Head(pend)) @@ parameters
         /\ pending' = pend
         /\ urls' = us

\* ------------------------------------------------------ identifier search
\* variant: the first page size is not cut down to max_results
FirstRetmax_NoClamp(m) == RetmaxCap

\* variant: the page cap is one too large
FirstRetmax_CapOff(m) == IF m < RetmaxCap + 1 THEN m ELSE RetmaxCap + 1

\* get_article_ids, lines 120-124: the page size of the first request
FirstRetmax(m) == IF m < RetmaxCap THEN m ELSE RetmaxCap

\* variant: -1 is kept as the cap
EffectiveCap_Keep(m, count) == m

\* get_article_ids, lines 137-138: -1 stands for the reported total
EffectiveCap(m, count) == IF m = -1 THEN count ELSE m

\* variant: identifiers already gathered are not added again
Accumulate_Dedup(ids, idlist) ==
    ids \o SelectSeq(idlist, LAMBDA x : \A i \in 1..Len(ids) : ids[i] # x)

\* get_article_ids, lines 130 and 156: article_ids += idlist
Accumulate(ids, idlist) == ids \o idlist

\* variant: the offset advances by the page size that was requested
NextParams_Requested(p, maxr, retrieved) ==
    ("retstart" :> (IF "retstart" \in DOMAIN p THEN p["retstart"] ELSE 0)
                        + p["retmax"])
        @@ ("retmax" :> IF maxr - retrieved < p["retmax"]
                        THEN maxr - retrieved
                        ELSE p["retmax"])
        @@ p

\* get_article_ids, lines 144-148: the parameters of the next request
NextParams(p, maxr, retrieved) ==
    ("retstart" :> retrieved)
        @@ ("retmax" :> IF maxr - retrieved < p["retmax"]
                        THEN maxr - retrieved
                        ELSE p["retmax"])
        @@ p

\* get_article_ids, lines 113-127, up to the first _get
StartSearch(m, s) ==
    /\ src' = s
    /\ result' = NoResult
    /\ article_ids' = <<>>
    /\ max_results' = m
    /\ total_result_count' = 0
    /\ retrieved_count' = 0
    /\ reqparams' = ("retmax" :> FirstRetmax(m)) @@ ("term" :> "q") @@ parameters
    /\ pc' = "get"
    /\ site' = "ids_first"

\* get_article_ids, line 162, and what its caller does with the list:
\* query (lines 48-57) chains one generator per batch,
\* query_article_download_urls (line 61) looks the identifiers up
SearchReturn(ids) ==
    CASE call.op = "get_article_ids" ->
            /\ result' = Returned(ids)
            /\ pc' = "idle"
            /\ site' = None
            /\ reqparams' = reqparams
            /\ UNCHANGED <<lazyVars, resolveVars>>
      [] call.op = "query" ->
            /\ chain' = [i \in 1..Len(batches(ids, BatchSize)) |->
                            [kind |-> "articles", ids |-> batches(ids, BatchSize)[i]]]
            /\ todo' = <<>>
            /\ result' = Returned("chain")
            /\ pc' = "lazy"
            /\ site' = None
            /\ reqparams' = reqparams
            /\ UNCHANGED <<yielded, doc, resolveVars>>
      [] call.op = "query_article_download_urls" ->
            /\ NextLookup(ids, <<>>)
            /\ UNCHANGED lazyVars

\* get_article_ids, lines 141-151: the loop test, and the next request
AfterPage(ids, total, retrieved, maxr) ==
    IF retrieved < total /\ retrieved < maxr
    THEN /\ reqparams' = NextParams(reqparams, maxr, retrieved)
         /\ pc' = "get"
         /\ site' = "ids_loop"
         /\ result' = result
         /\ UNCHANGED <<lazyVars, resolveVars>>
    ELSE SearchReturn(ids)

\* -------------------------------------------------------------- responses
\* a round trip takes one tick of the clock
Arrive == now < MaxClock /\ now' = now + 1

\* variant: the request is tried again after a failure status
AfterFailure_Retry(st) == "get"

\* where control is once the exception of line 76 has left _get and the
\* operation that called it: with the consumer of the generator, or with
\* the caller of the method
AfterFailure(st) == IF st \in {"fetch", "summary"} THEN "lazy" ELSE "idle"

\* _get, line 76: raise_for_status raises on a failure status; no timestamp
\* is recorded.  Inside a generator the exception ends the generator.
RespondFail ==
    /\ pc = "wait"
    /\ Arrive
    /\ result' = Raised("HTTPError")
    /\ pc' = AfterFailure(site)
    /\ site' = None
    /\ todo' = <<>>
    /\ UNCHANGED <<clientVars, requestsMade, call, ncalls, nSent, lastReq,
                   reqparams, src, searchVars, histVars, chain, yielded, doc,
                   resolveVars>>

\* _get, lines 79-85, then get_article_ids, lines 127-141: the first page
RespondFirstPage ==
    /\ pc = "wait"
    /\ site = "ids_first"
    /\ \E r \in SearchBodies(lastReq.params, src) :
        /\ Arrive
        /\ requestsMade' = Append(requestsMade, now')
        /\ article_ids' = Accumulate(article_ids, r.idlist)
        /\ total_result_count' = r.count
        /\ retrieved_count' = r.retmax
        /\ max_results' = EffectiveCap(max_results, r.count)
        /\ pages' = Append(pages, r)
        /\ AfterPage(article_ids', total_result_count', retrieved_count',
                     max_results')
    /\ UNCHANGED <<clientVars, call, ncalls, nSent, lastReq, src, sent>>

\* _get, lines 79-85, then get_article_ids, lines 151-159 and 141: a later page
RespondNextPage ==
    /\ pc = "wait"
    /\ site = "ids_loop"
    /\ \E r \in SearchBodies(lastReq.params, src) :
        /\ Arrive
        /\ requestsMade' = Append(requestsMade, now')
        /\ article_ids' = Accumulate(article_ids, r.idlist)
        /\ retrieved_count' = retrieved_count + r.retmax
        /\ pages' = Append(pages, r)
        /\ AfterPage(article_ids', total_result_count, retrieved_count',
                     max_results)
    /\ UNCHANGED <<clientVars, call, ncalls, nSent, lastReq, src, sent,
                   max_results, total_result_count>>

\* _get, lines 79-85, then get_articles, lines 81-87: the document is
\* parsed and the generator runs to its first yield
RespondFetch ==
    /\ pc = "wait"
    /\ site = "fetch"
    /\ \E body \in Docs(Tags) :
        /\ Arrive
        /\ requestsMade' = Append(requestsMade, now')
        /\ doc' = Append(doc, Parse(body))
        /\ Resume(chain, ArticleOrder(Parse(body)), yielded)
    /\ UNCHANGED <<clientVars, call, ncalls, nSent, lastReq, src, searchVars,
                   histVars, resolveVars>>

\* _get, lines 79-85, then get_articles_summaries, lines 108-111
RespondSummary ==
    /\ pc = "wait"
    /\ site = "summary"
    /\ \E body \in Docs({"DocSum"}) :
        /\ Arrive
        /\ requestsMade' = Append(requestsMade, now')
        /\ doc' = Append(doc, Parse(body))
        /\ Resume(chain, SummaryOrder(Parse(body)), yielded)
    /\ UNCHANGED <<clientVars, call, ncalls, nSent, lastReq, src, searchVars,
                   histVars, resolveVars>>

\* _get, lines 79-85, then get_article_download_url, lines 33-48
RespondLookup ==
    /\ pc = "wait"
    /\ site = "oa"
    /\ \E body \in OaBodies :
        /\ Arrive
        /\ requestsMade' = Append(requestsMade, now')
        /\ doc' = Append(doc, body)
        /\ LET r == Resolve(body, call.accepted_formats) IN
           IF ~r.ok
           THEN /\ result' = Raised(r.error)
                /\ pc' = "idle"
                /\ site' = None
                /\ UNCHANGED <<reqparams, resolveVars>>
           ELSE IF call.op = "get_article_download_url"
           THEN /\ result' = Returned(r.value)
                /\ pc' = "idle"
                /\ site' = None
                /\ UNCHANGED <<reqparams, resolveVars>>
           ELSE NextLookup(Tail(pending), Append(urls, r.value))
    /\ UNCHANGED <<clientVars, call, ncalls, nSent, lastReq, src, searchVars,
                   histVars, chain, todo, yielded>>

\* ------------------------------------------------------------- operations
Ops == {"get_article_ids", "query", "get_articles", "get_articles_summaries",
        "get_article_download_url", "query_article_download_urls"}

\* the methods each client class has
Methods(c) ==
    IF c = "PubMed" THEN Ops
    ELSE {"get_article_ids", "get_article_download_url",
          "query_article_download_urls"}

\* the arguments the callers pass
MaxResultsArgs == (-1..MaxResults) \cup {RetmaxCap - 1, RetmaxCap, RetmaxCap + 1}
FormatArgs == {<<"pdf", "tgz">>, <<"tgz", "pdf">>, <<>>}
IdArgs == {<<1, 2>>}
\* the searches made on behalf of query and query_article_download_urls
ChainArgs == {-1, MaxResults}
ChainSources == [kind : {"honest"}, total : {0, MaxTotal}, cap : {0, 1}]
\* the searches made on behalf of query: also one whose identifiers take
\* more than one batch
QueryArgs == ChainArgs \cup {BatchSize + 1}
QuerySources ==
    ChainSources \cup {[kind |-> "honest", total |-> BatchSize + 1, cap |-> 0]}

\* An invocation: the method is looked up on the client; the histories of
\* the model start afresh and the generators and lists of the call before
\* are gone.
Enter(c) ==
    /\ pc = "idle"
    /\ ncalls < MaxCalls
    /\ c.op \in Methods(cls)
    /\ call' = c
    /\ ncalls' = ncalls + 1
    /\ lastReq' = NoRequest
    /\ pages' = <<>>
    /\ sent' = <<>>
    /\ yielded' = <<>>
    /\ doc' = <<>>
    /\ todo' = <<>>
    /\ pending' = <<>>
    /\ urls' = <<>>
    /\ UNCHANGED <<clientVars, requestsMade, now, nSent>>

\* the call makes no search
NoSearch ==
    /\ src' = NoSource
    /\ article_ids' = <<>>
    /\ max_results' = 0
    /\ total_result_count' = 0
    /\ retrieved_count' = 0

\* the invocation raises before it does anything else
Fails(e) ==
    /\ result' = Raised(e)
    /\ reqparams' = NoParams
    /\ chain' = <<>>
    /\ NoSearch
    /\ UNCHANGED <<pc, site>>

\* a method the class of the client does not define
NoSuchMethod ==
    /\ pc = "idle"
    /\ ncalls < MaxCalls
    /\ \E o \in Ops \ Methods(cls) : call' = [op |-> o]
    /\ ncalls' = ncalls + 1
    /\ lastReq' = NoRequest
    /\ pages' = <<>>
    /\ sent' = <<>>
    /\ yielded' = <<>>
    /\ doc' = <<>>
    /\ todo' = <<>>
    /\ pending' = <<>>
    /\ urls' = <<>>
    /\ Fails("AttributeError")
    /\ UNCHANGED <<clientVars, requestsMade, now, nSent>>

\* PubMedClientBase.get_article_ids
GetArticleIds ==
    \E m \in MaxResultsArgs, s \in Sources :
        /\ Enter([op |-> "get_article_ids", max_results |-> m])
        /\ StartSearch(m, s)
        /\ chain' = <<>>

\* PubMed.query, lines 45-48
Query ==
    \E m \in QueryArgs, s \in QuerySources :
        /\ Enter([op |-> "query", max_results |-> m])
        /\ IF WrongDb("pubmed")
           THEN Fails("Exception")
           ELSE StartSearch(m, s) /\ chain' = <<>>

\* PubMed.get_articles: the call only creates the generator
GetArticles ==
    \E ids \in IdArgs :
        /\ Enter([op |-> "get_articles", article_ids |-> ids])
        /\ chain' = <<[kind |-> "articles", ids |-> ids]>>
        /\ result' = Returned("generator")
        /\ pc' = "lazy"
        /\ reqparams' = NoParams
        /\ NoSearch
        /\ UNCHANGED site

\* PubMed.get_articles_summaries: the call only creates the generator
GetArticlesSummaries ==
    \E ids \in IdArgs :
        /\ Enter([op |-> "get_articles_summaries", article_ids |-> ids])
        /\ chain' = <<[kind |-> "summaries", ids |-> ids]>>
        /\ result' = Returned("generator")
        /\ pc' = "lazy"
        /\ reqparams' = NoParams
        /\ NoSearch
        /\ UNCHANGED site

\* get_article_download_url, lines 27-32
GetArticleDownloadUrl ==
    \E id \in {1}, fmts \in FormatArgs :
        /\ Enter([op |-> "get_article_download_url", article_id |-> id,
                  accepted_formats |-> fmts])
        /\ IF WrongDb("pmc")
           THEN Fails("Exception")
           ELSE /\ reqparams' = ("id" :> id) @@ parameters
                /\ pc' = "get"
                /\ site' = "oa"
                /\ result' = NoResult
                /\ chain' = <<>>
                /\ NoSearch

\* query_article_download_urls, lines 50-59
QueryArticleDownloadUrls ==
    \E m \in ChainArgs, s \in ChainSources, fmts \in FormatArgs :
        /\ Enter([op |-> "query_article_download_urls", max_results |-> m,
                  accepted_formats |-> fmts])
        /\ IF WrongDb("pmc")
           THEN Fails("Exception")
           ELSE StartSearch(m, s) /\ chain' = <<>>

\* the consumer asks the lazy sequence for its next entity
Pull ==
    /\ pc = "lazy"
    /\ Resume(chain, todo, yielded)
    /\ UNCHANGED <<clientVars, requestsMade, now, call, ncalls, nSent, lastReq,
                   src, searchVars, histVars, doc, resolveVars>>

\* the consumer stops pulling and lets the sequence go
Drop ==
    /\ pc = "lazy"
    /\ pc' = "idle"
    /\ chain' = <<>>
    /\ todo' = <<>>
    /\ UNCHANGED <<clientVars, requestsMade, now, site, call, result, ncalls,
                   nSent, lastReq, reqparams, src, searchVars, histVars,
                   yielded, doc, resolveVars>>

\* a second passes while the caller does something else
Pause ==
    /\ pc \in {"idle", "lazy"}
    /\ now + Second <= MaxClock
    /\ now' = now + Second
    /\ UNCHANGED <<clientVars, requestsMade, pc, site, call, result, ncalls,
                   nSent, lastReq, reqparams, src, searchVars, histVars,
                   lazyVars, resolveVars>>

Next ==
    \/ GetArticleIds
    \/ Query
    \/ GetArticles
    \/ GetArticlesSummaries
    \/ GetArticleDownloadUrl
    \/ QueryArticleDownloadUrls
    \/ NoSuchMethod
    \/ BusyWait
    \/ Dispatch
    \/ RespondFail
    \/ RespondFirstPage
    \/ RespondNextPage
    \/ RespondFetch
    \/ RespondSummary
    \/ RespondLookup
    \/ Pull
    \/ Drop
    \/ Pause

Spec == Init /\ [][Next]_vars

\* The busy-wait of _get (lines 66-67) is a loop with an empty body on the
\* calling thread: as long as the check reports blocked the thread takes
\* another turn, and the wall clock read on line 95 moves on meanwhile.
\* A turn always moves the clock, so the subscript names the clock alone.
FairSpec == Spec /\ WF_now(BusyWait)

\* ==================================================================
\* The entity classes: PubMedArticle and PubMedBookArticle
\* ==================================================================
\* largest number of Keyword elements of an article element
MaxKeywords == 2
\* largest number of AbstractText elements of an article element
MaxSections == 2

\* A text that the mapper parses is the sequence of its characters; other
\* texts are opaque.
DigitChars == <<"0", "1", "2", "3", "4", "5", "6", "7", "8", "9">>
IsDigit(c) == \E d \in 1..10 : DigitChars[d] = c
DigitVal(c) == (CHOOSE d \in 1..10 : DigitChars[d] = c) - 1

RECURSIVE Decimal(_)
\* the number a sequence of digits writes
Decimal(t) ==
    IF t = <<>> THEN 0
    ELSE 10 * Decimal(SubSeq(t, 1, Len(t) - 1)) + DigitVal(t[Len(t)])

\* int(x), article.py lines 99-101: TypeError for None, ValueError for a
\* text that is not an optional sign followed by digits
int(t) ==
    IF t = None THEN [ok |-> FALSE, error |-> "TypeError"]
    ELSE LET signed == t # <<>> /\ Head(t) \in {"-", "+"}
             digits == IF signed THEN Tail(t) ELSE t
         IN  IF digits = <<>> \/ \E i \in 1..Len(digits) : ~IsDigit(digits[i])
             THEN [ok |-> FALSE, error |-> "ValueError"]
             ELSE [ok |-> TRUE,
                   value |-> IF signed /\ Head(t) = "-"
                             THEN 0 - Decimal(digits) ELSE Decimal(digits)]

IsLeap(y) == (y % 4 = 0 /\ y % 100 # 0) \/ y % 400 = 0

DaysInMonth(y, m) ==
    IF m = 2 THEN (IF IsLeap(y) THEN 29 ELSE 28)
    ELSE IF m \in {4, 6, 9, 11} THEN 30 ELSE 31

\* datetime.date(year, month, day), article.py lines 104-106: ValueError
\* unless the three numbers are a date of the calendar, years 1 to 9999
date(y, m, d) ==
    IF y \in 1..9999 /\ m \in 1..12 /\ d \in 1..DaysInMonth(y, m)
    THEN [ok |-> TRUE, value |-> <<y, m, d>>]
    ELSE [ok |-> FALSE, error |-> "ValueError"]

\* An element is seen through the paths the mapper looks up in it: for each
\* path, the nodes that match it, in document order.
Opt(S) == {<<>>} \cup {<<t>> : t \in S}

YearTexts == {<<"2", "0", "2", "4">>, <<"2", "0", "2", "3">>, <<"0">>, <<"x">>, <<>>}
MonthTexts == {<<"2">>, <<"0", "4">>, <<"1", "3">>, <<"x">>}
DayTexts == {<<"2", "9">>, <<"3", "1">>, <<"0">>, <<"-", "1">>, <<"1", "x">>}

\* the PubMedPubDate nodes: the texts of their Year, Month and Day children
DateNodes == [Year : Opt(YearTexts), Month : Opt(MonthTexts), Day : Opt(DayTexts)]

\* the Label attributes of AbstractText elements (None: no Label)
Labels == {None, "METHOD", "RESULTS", "CONCLUSION"}

\* AbstractText elements with the given labels, each with a text of its own
Sections(ls) == [i \in 1..Len(ls) |-> [Label |-> ls[i], text |-> <<"section", i>>]]
SectionLists == {Sections(ls) : ls \in UNION {[1..n -> Labels] : n \in 0..MaxSections}}

\* the texts of n Keyword elements
KeywordLists == {[i \in 1..n |-> <<"keyword", i>>] : n \in 0..MaxKeywords}

\* the PubmedArticle elements handed to the mapper
ArticleElements ==
    [ArticleTitle : Opt({"X"}),
     Keyword : KeywordLists,
     AbstractText : SectionLists,
     PubMedPubDate : Opt(DateNodes)]

\* helpers.get_content on the nodes a path matches: the text of the first
\* one, the default when there is none
text_at(matches, default) == IF matches = <<>> THEN default ELSE matches[1]

\* the texts of elements
Texts(nodes) == [i \in 1..Len(nodes) |-> nodes[i].text]

\* the elements that path[@Label='label'] matches
Labelled(nodes, label) == SelectSeq(nodes, LAMBDA n : n.Label = label)

\* _extract_keywords, lines 57-61
extract_keywords(el) == el.Keyword

\* _extract_abstract, lines 67-69
extract_abstract(el) == text_at(Texts(el.AbstractText), None)

\* _extract_conclusions, lines 71-73
extract_conclusions(el) == text_at(Texts(Labelled(el.AbstractText, "CONCLUSION")), None)

\* variant: the first section is taken, whatever its label
extract_methods_AnyLabel(el) == text_at(Texts(el.AbstractText), None)

\* _extract_methods, lines 75-77
extract_methods(el) == text_at(Texts(Labelled(el.AbstractText, "METHOD")), None)

\* _extract_results, lines 79-81
extract_results(el) == text_at(Texts(Labelled(el.AbstractText, "RESULTS")), None)

\* variant: a missing month or day is not replaced by 1
extract_publication_date_NoDefaults(el) ==
    LET found == el.PubMedPubDate
        y == int(IF found = <<>> THEN None ELSE text_at(found[1].Year, None))
        m == int(IF found = <<>> THEN None ELSE text_at(found[1].Month, None))
        d == int(IF found = <<>> THEN None ELSE text_at(found[1].Day, None))
    IN  IF ~y.ok \/ ~m.ok \/ ~d.ok THEN None
        ELSE IF date(y.value, m.value, d.value).ok
             THEN date(y.value, m.value, d.value).value
             ELSE None

\* _extract_publication_date, lines 91-111: the try block and the except
\* clause that turns every exception into None.  With no date node
\* get_content is handed None: whether it raises or gives its default, the
\* year is not obtained and the except clause is entered.
extract_publication_date(el) ==
    LET found == el.PubMedPubDate
        y == int(IF found = <<>> THEN None ELSE text_at(found[1].Year, None))
        m == int(IF found = <<>> THEN <<"1">> ELSE text_at(found[1].Month, <<"1">>))
        d == int(IF found = <<>> THEN <<"1">> ELSE text_at(found[1].Day, <<"1">>))
    IN  IF ~y.ok \/ ~m.ok \/ ~d.ok THEN None
        ELSE IF date(y.value, m.value, d.value).ok
             THEN date(y.value, m.value, d.value).value
             ELSE None

\* PubMedArticle.__slots__, article.py lines 15-29
ArticleSlots ==
    {"pubmed_id", "title", "abstract", "keywords", "journal",
     "publication_date", "authors", "methods", "conclusions", "results",
     "copyrights", "doi", "xml"}

\* PubMedBookArticle.__slots__, book.py lines 14-28
BookSlots ==
    {"pubmed_id", "title", "abstract", "publication_date", "authors",
     "copyrights", "doi", "isbn", "language", "publication_type", "sections",
     "publisher", "publisher_location"}

\* _initializeFromXML, lines 124-141: the attributes of the article object.
\* The elements of the model have no ArticleId, Journal,
\* CopyrightInformation or Author nodes.
initializeFromXML(el) ==
    [pubmed_id |-> text_at(<<>>, None),
     title |-> text_at(el.ArticleTitle, None),
     keywords |-> extract_keywords(el),
     journal |-> text_at(<<>>, None),
     abstract |-> extract_abstract(el),
     conclusions |-> extract_conclusions(el),
     methods |-> extract_methods(el),
     results |-> extract_results(el),
     copyrights |-> text_at(<<>>, None),
     doi |-> text_at(<<>>, None),
     publication_date |-> extract_publication_date(el),
     authors |-> <<>>,
     xml |-> el]

\* __init__ without xml_element, article.py lines 45-47 and book.py lines
\* 44-46: every slot is set, to the keyword argument of its name or to None
FromFields(slots, kwargs) ==
    [field \in slots |-> IF field \in DOMAIN kwargs THEN kwargs[field] ELSE None]

\* variant: the retained XML subtree gets no key
toDict_NoXml(self) == [key \in ArticleSlots \ {"xml"} |-> self[key]]

\* PubMedArticle.toDict, article.py lines 143-147
toDict(self) == [key \in ArticleSlots |-> self[key]]

\* PubMedBookArticle.to_dict, book.py lines 131-138
to_dict(self) ==
    [key \in BookSlots |-> IF key \in DOMAIN self THEN self[key] ELSE None]

\* the keyword arguments callers pass: declared fields of either class, of
\* one class only, and a name that neither class declares
KwKeys == {"title", "keywords", "isbn", "note"}
KwValues == {"a", "b", None}
Kwargs == UNION {[S -> KwValues] : S \in SUBSET KwKeys}

\* the frame of the entity classes: the client is not involved
clientState ==
    <<cls, parameters, requestsMade, now, pc, site, ncalls, nSent, lastReq,
      reqparams, src, article_ids, max_results, total_result_count,
      retrieved_count, pages, sent, chain, todo, yielded, doc, pending, urls>>

\* PubMedArticle(xml_element=el)
ArticleFromXml ==
    /\ call.op = None
    /\ \E el \in ArticleElements :
        /\ call' = [op |-> "PubMedArticle", xml_element |-> el]
        /\ result' = Returned(initializeFromXML(el))
    /\ UNCHANGED clientState

\* PubMedArticle(**kwargs)
ArticleFromFields ==
    /\ call.op = None
    /\ \E kwargs \in Kwargs :
        /\ call' = [op |-> "PubMedArticle", kwargs |-> kwargs]
        /\ result' = Returned(FromFields(ArticleSlots, kwargs))
    /\ UNCHANGED clientState

\* PubMedBookArticle(**kwargs)
BookFromFields ==
    /\ call.op = None
    /\ \E kwargs \in Kwargs :
        /\ call' = [op |-> "PubMedBookArticle", kwargs |-> kwargs]
        /\ result' = Returned(FromFields(BookSlots, kwargs))
    /\ UNCHANGED clientState

\* article.toDict() on the article built last
ArticleToDict ==
    /\ call.op = "PubMedArticle"
    /\ call' = [op |-> "toDict", self |-> result.value]
    /\ result' = Returned(toDict(result.value))
    /\ UNCHANGED clientState

\* book.to_dict() on the book article built last
BookToDict ==
    /\ call.op = "PubMedBookArticle"
    /\ call' = [op |-> "to_dict", self |-> result.value]
    /\ result' = Returned(to_dict(result.value))
    /\ UNCHANGED clientState

EntityNext ==
    \/ ArticleFromXml
    \/ ArticleFromFields
    \/ BookFromFields
    \/ ArticleToDict
    \/ BookToDict

\* no entity has been built yet; the client is a PubMed client without key
EntityInit == Init /\ parameters = Construct("PubMed", None)

\* the entity classes on their own, next to a client that does nothing:
\* an entity is built, and its dictionary taken
EntitySpec == EntityInit /\ [][EntityNext]_vars

\* ==================================================================
\* Properties
\* ==================================================================
SearchUrl == "/entrez/eutils/esearch.fcgi"

\* the search requests of this call, in order
SearchSent == SelectSeq(sent, LAMBDA q : q.url = SearchUrl)

\* the id lists of the pages received by this call, in order
PageIds == [i \in 1..Len(pages) |-> pages[i].idlist]

\* the retmax values reported by the first k pages of this call
Reported(k) == [i \in 1..k |-> pages[i].retmax]

SearchDone == call.op = "get_article_ids" /\ result.kind = "returned"

\* C1: a get_article_ids call with max_results >= 0 against a source that
\* honours offset and page size returns at most max_results identifiers and
\* at least min(max_results, total) of them.
C1_LengthBounds ==
    (SearchDone /\ src.kind = "honest" /\ call.max_results >= 0)
        => /\ Len(result.value) <= call.max_results
           /\ Len(result.value) >= Min(call.max_results, src.total)

\* a search of several pages that stops at max_results, short of the total
C1_Witness ==
    /\ SearchDone
    /\ src.kind = "honest"
    /\ call.max_results = 2
    /\ src.total = 3
    /\ Len(pages) = 2
    /\ Len(result.value) = 2

\* C2 (as amended): with max_results = -1, a stable total, and pages that
\* carry exactly the identifiers their retmax reports, taken from the
\* requested offset, get_article_ids returns exactly as many identifiers as
\* the first response reports in count; its first request asks for the page
\* size the clamping rule gives for -1.
C2_UnboundedHonest ==
    (SearchDone /\ call.max_results = -1 /\ src.kind = "honest")
        => /\ Len(result.value) = pages[1].count
           /\ SearchSent[1].params["retmax"] = -1

\* an unbounded search that needed several pages
C2_Witness ==
    /\ SearchDone
    /\ call.max_results = -1
    /\ src.kind = "honest"
    /\ Len(pages) >= 2
    /\ Len(result.value) = MaxTotal

\* C2 (as stated): with max_results = -1 and a stable total the call returns
\* exactly as many identifiers as the first response reports in count.
C2_UnboundedAnySource ==
    (SearchDone /\ call.max_results = -1)
        => Len(result.value) = pages[1].count

\* the recorded timestamps that lie within the trailing second
InWindow == {i \in 1..Len(requestsMade) : requestsMade[i] > now - Second}

\* C3: at no moment do more than rateLimit recorded dispatch timestamps lie
\* within the trailing one-second window.
C3_RateLimit == Cardinality(InWindow) <= rateLimit

RECURSIVE TrailingZeros(_)
\* the number of pages at the end of ps that report retmax = 0
TrailingZeros(ps) ==
    IF ps = <<>> \/ ps[Len(ps)].retmax # 0 THEN 0
    ELSE 1 + TrailingZeros(SubSeq(ps, 1, Len(ps) - 1))

\* C4: a search stops issuing requests after a bounded number of pages in a
\* row that made no progress: no search request is in flight once more than
\* ZeroProgressLimit such pages have been received.
C4_BoundedZeroProgress ==
    (pc = "wait" /\ site = "ids_loop") => TrailingZeros(pages) <= ZeroProgressLimit

\* C5: the first search request carries no retstart, and the retstart of
\* request k+1 is the sum of the retmax values reported by pages 1..k.
C5_Offsets ==
    \A k \in 1..Len(SearchSent) :
        IF k = 1
        THEN "retstart" \notin DOMAIN SearchSent[k].params
        ELSE SearchSent[k].params["retstart"] = SumSeq(Reported(k - 1))

\* a third request whose offset differs from the sum of the page sizes asked
C5_Witness ==
    /\ Len(SearchSent) >= 3
    /\ pages[1].retmax # SearchSent[1].params["retmax"]
    /\ SearchSent[3].params["retstart"] = pages[1].retmax + pages[2].retmax
    /\ SearchSent[3].params["retstart"]
         # SearchSent[1].params["retmax"] + SearchSent[2].params["retmax"]

\* C6: no search request asks for more than RetmaxCap identifiers, and with
\* max_results below RetmaxCap the first request asks for exactly max_results.
C6_PageSize ==
    /\ \A k \in 1..Len(SearchSent) : SearchSent[k].params["retmax"] <= RetmaxCap
    /\ (Len(SearchSent) >= 1 /\ call.max_results < RetmaxCap)
          => SearchSent[1].params["retmax"] = call.max_results

\* a search with max_results above the cap whose requests all ask for the cap
C6_Witness ==
    /\ Len(SearchSent) >= 2
    /\ call.max_results = RetmaxCap + 1
    /\ \A k \in 1..Len(SearchSent) : SearchSent[k].params["retmax"] = RetmaxCap

\* C7: the accumulator, and the list get_article_ids returns, is the
\* concatenation in page order of the id lists of the pages received.
C7_Concatenation ==
    /\ article_ids = Flatten(PageIds)
    /\ SearchDone => result.value = Flatten(PageIds)

\* a returned list of several pages that holds an identifier twice
C7_Witness ==
    /\ SearchDone
    /\ Len(pages) >= 2
    /\ \E i, j \in 1..Len(result.value) : i < j /\ result.value[i] = result.value[j]

\* the operation is valid for one database mode only, and db is another
Mismatch(o, db) ==
    \/ o \in {"get_article_download_url", "query_article_download_urls"} /\ db # "pmc"
    \/ o \in {"query", "get_articles"} /\ db # "pubmed"

BatchDone(ops) ==
    /\ call.op \in ops
    /\ pc = "lazy"
    /\ Len(doc) = 1
    /\ todo = <<>>

\* C9: get_articles on one batch yields one entity per record element, the
\* articles in document order first, then the book articles in document order.
C9_ArticlesThenBooks ==
    BatchDone({"get_articles"})
        => LET A == Iter(doc[1], "PubmedArticle")
               B == Iter(doc[1], "PubmedBookArticle")
           IN  /\ Len(yielded) = Len(A) + Len(B)
               /\ \A i \in 1..Len(A) :
                     yielded[i].kind = "article" /\ yielded[i].xml = A[i].pos
               /\ \A j \in 1..Len(B) :
                     /\ yielded[Len(A) + j].kind = "book"
                     /\ yielded[Len(A) + j].xml = B[j].pos

\* the identifier field of an entity
IdOf(e) == IF e.kind = "summary" THEN e.doc_id ELSE e.pubmed_id

\* C10: record elements that lack sub-elements do not abort the batch: no
\* error is raised and every record element of the document gives an entity
\* whose fields are filled where the sub-element is present and absent where
\* it is missing.
C10_BestEffort ==
    BatchDone({"get_articles", "get_articles_summaries"})
        => /\ result.kind # "raised"
           /\ Len(yielded) = Len(doc[1])
           /\ \A i \in 1..Len(yielded) :
                 LET el == doc[1][yielded[i].xml] IN
                 /\ IdOf(yielded[i]) = IF "Id" \in el.sub THEN Text(el, "Id") ELSE None
                 /\ yielded[i].title
                       = IF "Title" \in el.sub THEN Text(el, "Title") ELSE None

\* C11: once a pull on the sequence that query returned has raised an HTTP
\* error, the sequence is finished: the next step of the consumer delivers
\* no entity and starts no request, even when batches remain.
C11_DeadAfterError ==
    [][(call.op = "query" /\ pc = "lazy" /\ result = Raised("HTTPError"))
          => /\ pc' # "get"
             /\ yielded' = yielded
             /\ nSent' = nSent]_vars

\* a response arrives that records no timestamp: the request failed
FailureStep == pc = "wait" /\ pc' # "wait" /\ requestsMade' = requestsMade

\* C12: every _get issues exactly one request (a request goes out exactly
\* on the step from the limiter to the wait for the response, and a _get
\* leaves the limiter only that way); a failure status raises HTTPError to
\* the caller at once, with no retry and no further request of the
\* operation, whose generator is finished; a search gives its caller the
\* error and no identifier list, whatever pages it had gathered.
C12_OneRequestNoRetry ==
    [][/\ nSent' = (IF pc = "get" /\ pc' = "wait" THEN nSent + 1 ELSE nSent)
       /\ (pc = "get" => pc' \in {"get", "wait"})
       /\ (pc' = "wait" => pc \in {"get", "wait"})
       /\ FailureStep
            => /\ result' = Raised("HTTPError")
               /\ pc' \in {"idle", "lazy"}
               /\ sent' = sent
               /\ todo' = <<>>
               /\ (site \in {"ids_first", "ids_loop", "oa"}) => pc' = "idle"]_vars

\* a search that had gathered a page when its next request failed
C12_Witness ==
    /\ call.op = "get_article_ids"
    /\ result = Raised("HTTPError")
    /\ pc = "idle"
    /\ Len(pages) >= 1
    /\ article_ids # <<>>
    /\ Len(sent) = Len(pages) + 1

OaUrl == "/pmc/utils/oa/oa.fcgi"

\* the lookup requests of this call, in order
OaSent == SelectSeq(sent, LAMBDA q : q.url = OaUrl)

\* a single lookup whose response arrived with a success status
LookupDone ==
    /\ call.op = "get_article_download_url"
    /\ pc = "idle"
    /\ Len(doc) = 1

\* the record has a link of the format
Contains(links, fmt) == \E i \in 1..Len(links) : links[i] = fmt

\* C13: for a response without error element, with its record,
\* get_article_download_url returns the href of a link whose format is the
\* first entry of accepted_formats that the record has a link of, and None
\* when the record has a link of none of them (accepted_formats empty
\* included).
C13_FirstAcceptedFormat ==
    (LookupDone /\ doc[1].wellformed /\ ~doc[1].error /\ doc[1].record)
        => LET fmts == call.accepted_formats
               links == doc[1].links
               hit == {k \in 1..Len(fmts) : Contains(links, fmts[k])}
           IN  IF hit = {}
               THEN result = Returned(None)
               ELSE LET k == CHOOSE m \in hit : \A n \in hit : m <= n IN
                    /\ result.kind = "returned"
                    /\ result.value # None
                    /\ result.value[1] = "href"
                    /\ links[result.value[2]] = fmts[k]

\* a record with only a tgz link, asked for pdf before tgz: the tgz href
C13_Witness ==
    /\ LookupDone
    /\ doc[1] = [wellformed |-> TRUE, error |-> FALSE, record |-> TRUE,
                 links |-> <<"tgz">>]
    /\ call.accepted_formats = <<"pdf", "tgz">>
    /\ result = Returned(<<"href", 1>>)

\* C14: a well-formed response with an error element under its root makes
\* the lookup give None and raise nothing, whatever accepted_formats is and
\* whatever else the response holds; in the batch resolver the entry of
\* that identifier is None.
C14_ErrorElementGivesNone ==
    /\ (LookupDone /\ doc[1].wellformed /\ doc[1].error)
          => result = Returned(None)
    /\ call.op = "query_article_download_urls"
          => \A i \in 1..Len(doc) :
                (doc[i].wellformed /\ doc[i].error)
                    => (i <= Len(urls) /\ urls[i] = None)

\* an error element next to a record that has a link of an accepted format
C14_Witness ==
    /\ LookupDone
    /\ doc[1] = [wellformed |-> TRUE, error |-> TRUE, record |-> TRUE,
                 links |-> <<"pdf">>]
    /\ call.accepted_formats = <<"pdf", "tgz">>
    /\ result = Returned(None)

\* C15: query_article_download_urls issues its lookups after the search
\* has completed, one per identifier of the list the search gave, in the
\* order of that list; the list it returns has one entry per identifier,
\* in the same order: what the lookup of that identifier resolved to, None
\* when it resolved to nothing.
C15_OnePerIdentifier ==
    call.op = "query_article_download_urls"
        => /\ sent = SearchSent \o OaSent
           /\ OaSent # <<>> => Len(pages) = Len(SearchSent)
           /\ Len(OaSent) <= Len(article_ids)
           /\ \A i \in 1..Len(OaSent) : OaSent[i].params["id"] = article_ids[i]
           /\ result.kind = "returned"
                => /\ Len(result.value) = Len(article_ids)
                   /\ Len(OaSent) = Len(article_ids)
                   /\ Len(doc) = Len(article_ids)
                   /\ \A i \in 1..Len(article_ids) :
                         result.value[i] = Resolve(doc[i], call.accepted_formats).value

\* a list of several entries with an unresolved identifier before a
\* resolved one
C15_Witness ==
    /\ call.op = "query_article_download_urls"
    /\ result.kind = "returned"
    /\ Len(result.value) = 3
    /\ result.value[1] = None
    /\ result.value[2] # None
    /\ Len(pages) >= 2

\* an article has just been built from an element
MappedArticle == call.op = "PubMedArticle" /\ "xml_element" \in DOMAIN call

\* the date the parts of a PubMedPubDate node stand for: the year must be
\* there, a missing month or day counts as 1; None when a part is not a
\* number or the three numbers are no date of the calendar
DateOf(n) ==
    LET yr == IF n.Year = <<>> THEN [ok |-> FALSE] ELSE int(n.Year[1])
        mo == IF n.Month = <<>> THEN [ok |-> TRUE, value |-> 1] ELSE int(n.Month[1])
        dy == IF n.Day = <<>> THEN [ok |-> TRUE, value |-> 1] ELSE int(n.Day[1])
    IN  IF yr.ok /\ mo.ok /\ dy.ok
        THEN (IF date(yr.value, mo.value, dy.value).ok
              THEN <<yr.value, mo.value, dy.value>> ELSE None)
        ELSE None

\* both absent, or the same value
SameValue(a, b) == IF a = None THEN b = None ELSE a = b

\* a date node that gives a date
GoodDate == [Year |-> << <<"2", "0", "2", "4">> >>, Month |-> <<>>, Day |-> <<>>]

\* C16: the article mapper never raises; publication_date is (year, month,
\* day) with 1 for a missing month or day, and None when the date node or
\* the year is missing, a part is not a number, or the parts are no date of
\* the calendar; every other field is what it is for the same element with
\* a good date.
C16_PublicationDate ==
    MappedArticle
        => LET el == call.xml_element
               e == result.value
           IN  /\ result.kind = "returned"
               /\ DOMAIN e = ArticleSlots
               /\ SameValue(e.publication_date,
                             IF el.PubMedPubDate = <<>> THEN None
                             ELSE DateOf(el.PubMedPubDate[1]))
               /\ \A f \in ArticleSlots \ {"publication_date", "xml"} :
                     e[f] = initializeFromXML(
                                [el EXCEPT !.PubMedPubDate = <<GoodDate>>])[f]

\* 29 February of a year that is no leap year: no date, the title and the
\* keywords mapped all the same
C16_Witness ==
    /\ MappedArticle
    /\ call.xml_element.PubMedPubDate
         = <<[Year |-> << <<"2", "0", "2", "3">> >>, Month |-> << <<"2">> >>,
              Day |-> << <<"2", "9">> >>]>>
    /\ result.value.publication_date = None
    /\ result.value.title = "X"
    /\ Len(result.value.keywords) = 2

\* C17: the dictionary of an article or book article built from field
\* values has exactly one key per declared field of its class, with the
\* value supplied for the field, None for a field that was not supplied.
C17_RoundTrip ==
    [][(call'.op \in {"toDict", "to_dict"} /\ "kwargs" \in DOMAIN call)
          => LET slots == IF call'.op = "toDict" THEN ArticleSlots ELSE BookSlots
                 d == result'.value
             IN  /\ result'.kind = "returned"
                 /\ DOMAIN d = slots
                 /\ \A f \in slots :
                       d[f] = IF f \in DOMAIN call.kwargs
                              THEN call.kwargs[f] ELSE None]_vars

\* the dictionary of a book article built with an isbn and no title
C17_Witness ==
    /\ call.op = "to_dict"
    /\ result.kind = "returned"
    /\ DOMAIN result.value = BookSlots
    /\ result.value["isbn"] = "a"
    /\ result.value["title"] = None
    /\ call.self["isbn"] = "a"

\* some AbstractText element of the element has the label
HasLabel(el, label) ==
    \E i \in 1..Len(el.AbstractText) : el.AbstractText[i].Label = label

\* the field holds the text of an AbstractText element with the label
TextOfLabel(el, label, v) ==
    \E i \in 1..Len(el.AbstractText) :
        el.AbstractText[i].Label = label /\ el.AbstractText[i].text = v

\* C18: an element without Keyword elements maps, without error, to an
\* article whose keywords are the empty list; abstract is set whenever the
\* element has abstract text; methods, results and conclusions are set
\* exactly when a section labelled METHOD, RESULTS, CONCLUSION exists, each
\* on its own, and hold the text of such a section.
C18_MappingTolerance ==
    MappedArticle
        => LET el == call.xml_element
               e == result.value
           IN  /\ result.kind = "returned"
               /\ el.Keyword = <<>> => e.keywords = <<>>
               /\ (e.abstract # None) <=> (el.AbstractText # <<>>)
               /\ (e.methods # None) <=> HasLabel(el, "METHOD")
               /\ (e.results # None) <=> HasLabel(el, "RESULTS")
               /\ (e.conclusions # None) <=> HasLabel(el, "CONCLUSION")
               /\ e.methods # None => TextOfLabel(el, "METHOD", e.methods)
               /\ e.results # None => TextOfLabel(el, "RESULTS", e.results)
               /\ e.conclusions # None
                     => TextOfLabel(el, "CONCLUSION", e.conclusions)

\* no keywords, an unlabelled section and a RESULTS section: abstract and
\* results are set, methods and conclusions are not
C18_Witness ==
    /\ MappedArticle
    /\ call.xml_element.Keyword = <<>>
    /\ result.value.keywords = <<>>
    /\ Len(call.xml_element.AbstractText) = 2
    /\ result.value.abstract # None
    /\ result.value.methods = None
    /\ result.value.results # None
    /\ result.value.conclusions = None

\* the response that arrives carries a body: the status was a success
Received == doc' # doc \/ pages' # pages

\* C19: the timestamp list changes in two ways only.  An admission check
\* (a turn of the busy-wait, or the check that admits) keeps exactly the
\* timestamps less than one second old, in order; a response with a
\* success status appends one timestamp, the time at which it arrived; a
\* response with a failure status, and every other step, leaves the list
\* as it is.
C19_TimestampFrame ==
    [][/\ pc = "get"
            => requestsMade'
                 = SelectSeq(requestsMade, LAMBDA t : now - t < Second)
       /\ (pc = "wait" /\ Received)
            => /\ requestsMade' = Append(requestsMade, now')
               /\ now' > now
       /\ (pc = "wait" /\ ~Received) => requestsMade' = requestsMade
       /\ pc \notin {"get", "wait"} => requestsMade' = requestsMade]_vars

\* four pages arrived at ticks 1 to 4; the fifth request waited until the
\* first timestamp was exactly one second old and removed, and then
\* failed, leaving the three others
C19_Witness ==
    /\ result = Raised("HTTPError")
    /\ Len(pages) = 4
    /\ nSent = 5
    /\ requestsMade = <<2, 3, 4>>
    /\ now = Second + 2

FetchUrl == "/entrez/eutils/efetch.fcgi"

\* the fetch requests of this call, in order
FetchSent == SelectSeq(sent, LAMBDA q : q.url = FetchUrl)

\* the record elements of the documents received by this call
ElementsReceived == SumSeq([j \in 1..Len(doc) |-> Len(doc[j])])

\* query: the search requests come first and are all answered before query
\* returns; nothing is fetched before the first pull
SearchBeforeFetch ==
    /\ sent = SearchSent \o FetchSent
    /\ (FetchSent # <<>> \/ pc = "lazy") => Len(pages) = Len(SearchSent)
    /\ (pc = "lazy" /\ result = Returned("chain")) => FetchSent = <<>>

\* query: fetch request k asks for batch k of the identifiers, the batches
\* being the consecutive slices of at most BatchSize identifiers
OneFetchPerBatch ==
    LET bs == batches(article_ids, BatchSize) IN
    /\ Len(FetchSent) <= Len(bs)
    /\ \A k \in 1..Len(FetchSent) :
          /\ FetchSent[k].params["id"] = bs[k]
          /\ Len(bs[k]) <= BatchSize
    /\ FetchSent # <<>> => Flatten(bs) = article_ids

\* query: while a fetch request is being issued, the document of every
\* batch fetched before has arrived and every record element of it has been
\* delivered as an entity
DeliveredBeforeNextFetch ==
    (pc \in {"get", "wait"} /\ site = "fetch")
        => /\ Len(doc) = Len(FetchSent) - (IF pc = "wait" THEN 1 ELSE 0)
           /\ Len(yielded) = ElementsReceived

\* C20: laziness and ordering of query: the search is complete before
\* query returns and nothing is fetched until the consumer pulls; the
\* identifiers are cut in order into batches of at most 250, each fetched at
\* most once, in order; the fetch of batch k+1 is issued only after every
\* entity of batch k has been delivered.
C20_LazyInOrder ==
    call.op = "query"
        => /\ SearchBeforeFetch
           /\ OneFetchPerBatch
           /\ DeliveredBeforeNextFetch

\* the admission check reports blocked: more than rateLimit recorded
\* timestamps are less than one second old
Blocked == Cardinality(InWindow) > rateLimit

\* the oldest timestamp the check still tracks
Oldest == requestsMade[CHOOSE i \in InWindow : \A j \in InWindow : i <= j]

\* the clock of the model can still reach the moment at which the oldest
\* tracked timestamp is one second old
ClockReaches == Oldest + Second <= MaxClock

\* C21: the busy-wait before a request always ends.  While the check
\* reports blocked the caller only spins: the step is a turn of the wait,
\* no request goes out, and the turn that brings the clock to one second
\* after the oldest tracked timestamp leaves the check unblocked.  Every
\* request is issued from a state in which the check does not report
\* blocked.  With the clock advancing, a blocked caller is admitted, and no
\* later than one second after the oldest tracked timestamp.
C21_BusyWaitEnds ==
    /\ [][/\ (pc = "get" /\ Blocked)
               => /\ pc' = "get"
                  /\ now' = now + 1
                  /\ now' <= Oldest + Second
                  /\ nSent' = nSent
                  /\ sent' = sent
                  /\ now' = Oldest + Second => ~Blocked'
          /\ nSent' # nSent => (pc = "get" /\ ~Blocked /\ now' = now)]_vars
    /\ (pc = "get" /\ Blocked /\ ClockReaches)
          ~> /\ pc = "get"
             /\ ~Blocked
             /\ requestsMade # <<>>
             /\ now <= requestsMade[1] + Second

\* a caller found four timestamps inside the window, spun, and is admitted
\* at the moment the oldest of them is exactly one second old
C21_Witness ==
    /\ pc = "get"
    /\ ~Blocked
    /\ Len(requestsMade) = rateLimit + 1
    /\ requestsMade[rateLimit + 1] - requestsMade[1] < Second
    /\ now = requestsMade[1] + Second

\* the stored configuration is what the constructor made of its arguments:
\* tool, email and database selector, and api_key exactly when one was given
StoredConfig == \E k \in {None, "key"} : parameters = Construct(cls, k)

\* the parameters a call sets on its own dictionary before a request to
\* the endpoint goes out
PerCallKeys(st) ==
    CASE st = "ids_first" -> {"term", "retmax", "retmode"}
      [] st = "ids_loop" -> {"term", "retmax", "retstart", "retmode"}
      [] st \in {"fetch", "summary", "oa"} -> {"id", "retmode"}

\* C22: no step changes the stored configuration, which holds the
\* constructor's entries and none of term, retmax, retstart, id, retmode;
\* every request that goes out carries the stored entries as they are and,
\* besides them, exactly the parameters its own call set for its endpoint,
\* nothing an earlier request left behind.
C22_ConfigUnchanged ==
    [][/\ parameters' = parameters
       /\ StoredConfig
       /\ DOMAIN parameters
            \cap {"term", "retmax", "retstart", "id", "retmode"} = {}
       /\ nSent' # nSent
            => LET p == lastReq'.params IN
               /\ DOMAIN p = DOMAIN parameters \cup PerCallKeys(site)
               /\ \A k \in DOMAIN parameters : p[k] = parameters[k]]_vars

\* the second call on a client with an API key is a query; its search is
\* over and the fetch of its batch is in flight, carrying the stored
\* entries, id and retmode, and nothing of the search
C22_Witness ==
    /\ ncalls = 2
    /\ call.op = "query"
    /\ pc = "wait"
    /\ site = "fetch"
    /\ Len(pages) > 0
    /\ parameters = Construct("PubMed", "key")
    /\ DOMAIN lastReq.params = DOMAIN parameters \cup {"id", "retmode"}
    /\ nSent > Len(sent)

====
